---- MODULE Spec2Model ----
(***************************************************************************)
(* Model of pkg/gui/boxlayout/boxlayout.go: ArrangeViews, the recursive    *)
(* partitioning of a rectangle among a tree of boxes.                      *)
(*                                                                         *)
(* The recursion is unfolded into an explicit call stack.  Every frame of  *)
(* `stack` is one activation of ArrangeViews with its parameters and       *)
(* locals; `visits` records every activation ever made (in call order,     *)
(* i.e. depth-first, child-list order) and `calls` records every           *)
(* invocation of a caller-supplied callback.                               *)
(***************************************************************************)
EXTENDS Integers, Sequences, FiniteSets, TLC

VARIABLES boxes, stack, visits, calls

vars == <<boxes, stack, visits, calls>>

(***************************************************************************)
(* Bounds of the model.                                                    *)
(***************************************************************************)
MaxDim == 10
MaxCross == 2
MaxTreeDim == 6
MaxSize == 2
MaxWeight == 2
ChildThreshold == 3

(***************************************************************************)
(* const ( ROW = iota; COLUMN )                                            *)
(***************************************************************************)
ROW == 0
COLUMN == 1

(***************************************************************************)
(* type Box.  Boxes are referred to by node id (the *Box pointer); `boxes` *)
(* maps node ids to their fields.  The two callbacks are caller-supplied   *)
(* functions of (width, height); the model draws them from a small family: *)
(*   ConditionalDirection = "nil" | "wider"                                *)
(*       "wider":  COLUMN when width > height, else ROW                    *)
(*   ConditionalChildren  = "nil" | "threshold"                            *)
(*       "threshold": no children when width < ChildThreshold, else the    *)
(*       list CondKids captured by the callback                            *)
(***************************************************************************)
Box(dir, cdir, children, cchildren, ckids, name, size, weight) ==
    [Direction |-> dir, ConditionalDirection |-> cdir,
     Children |-> children, ConditionalChildren |-> cchildren,
     CondKids |-> ckids, ViewName |-> name, Size |-> size, Weight |-> weight]

LeafBox(name, size, weight) == Box(ROW, "nil", <<>>, "nil", <<>>, name, size, weight)

(***************************************************************************)
(* type Dimensions                                                         *)
(***************************************************************************)
Dimensions(x0, x1, y0, y1) == [X0 |-> x0, X1 |-> x1, Y0 |-> y0, Y1 |-> y1]

EmptyMap == [k \in {} |-> Dimensions(0, 0, 0, 0)]

Min(a, b) == IF a < b THEN a ELSE b

(***************************************************************************)
(* func (b *Box) isStatic() bool                                           *)
(***************************************************************************)
isStatic(b) == b.Size > 0

(***************************************************************************)
(* The caller-supplied callbacks, applied.                                 *)
(***************************************************************************)
ApplyConditionalDirection(b, width, height) ==
    IF width > height THEN COLUMN ELSE ROW

ApplyConditionalChildren(b, width, height) ==
    IF width < ChildThreshold THEN <<>> ELSE b.CondKids

(***************************************************************************)
(* func (b *Box) getDirection(width, height) int                           *)
(* getDirectionCalls is the sequence of callback invocations it makes.     *)
(***************************************************************************)
getDirection(b, width, height) ==
    IF b.ConditionalDirection # "nil"
    THEN ApplyConditionalDirection(b, width, height)
    ELSE b.Direction

getDirectionCalls(b, v, width, height) ==
    IF b.ConditionalDirection # "nil"
    THEN << [fn |-> "ConditionalDirection", visit |-> v,
             width |-> width, height |-> height] >>
    ELSE << >>

(***************************************************************************)
(* func (b *Box) getChildren(width, height) []*Box                         *)
(***************************************************************************)
getChildren(b, width, height) ==
    IF b.ConditionalChildren # "nil"
    THEN ApplyConditionalChildren(b, width, height)
    ELSE b.Children

\* variant: the children are resolved a second time after the emptiness test
getChildrenCalls_Twice(b, v, width, height) ==
    IF b.ConditionalChildren # "nil"
    THEN << [fn |-> "ConditionalChildren", visit |-> v,
             width |-> width, height |-> height],
            [fn |-> "ConditionalChildren", visit |-> v,
             width |-> width, height |-> height] >>
    ELSE << >>

getChildrenCalls(b, v, width, height) ==
    IF b.ConditionalChildren # "nil"
    THEN << [fn |-> "ConditionalChildren", visit |-> v,
             width |-> width, height |-> height] >>
    ELSE << >>

(***************************************************************************)
(* func mergeDimensionMaps(a, b): entries of b overwrite entries of a.     *)
(***************************************************************************)
\* variant: an entry already present is kept
mergeDimensionMaps_FirstWins(a, b) ==
    [k \in (DOMAIN a) \cup (DOMAIN b) |-> IF k \in DOMAIN a THEN a[k] ELSE b[k]]

mergeDimensionMaps(a, b) ==
    [k \in (DOMAIN a) \cup (DOMAIN b) |-> IF k \in DOMAIN b THEN b[k] ELSE a[k]]

(***************************************************************************)
(* ArrangeViews, leaf branch (lines 52-59).                                *)
(***************************************************************************)
\* variant: exclusive upper bounds
LeafDimensions_Exclusive(x0, y0, width, height) ==
    Dimensions(x0, x0 + width, y0, y0 + height)

LeafDimensions(x0, y0, width, height) ==
    Dimensions(x0, x0 + width - 1, y0, y0 + height - 1)

\* variant: a view given no space is left out
LeafResult_SkipsEmpty(b, x0, y0, width, height) ==
    IF b.ViewName # "" /\ width > 0 /\ height > 0
    THEN [k \in {b.ViewName} |-> Dimensions(x0, x0 + width - 1, y0, y0 + height - 1)]
    ELSE EmptyMap

LeafResult(b, x0, y0, width, height) ==
    IF b.ViewName # ""
    THEN [k \in {b.ViewName} |-> LeafDimensions(x0, y0, width, height)]
    ELSE EmptyMap

(***************************************************************************)
(* ArrangeViews, lines 63-68.                                              *)
(***************************************************************************)
AvailableSize(direction, width, height) ==
    IF direction = COLUMN THEN width ELSE height

(***************************************************************************)
(* ArrangeViews, first loop (lines 70-77): both sums run over every child. *)
(***************************************************************************)
RECURSIVE ReservedSize(_, _)
ReservedSize(bx, children) ==
    IF children = <<>> THEN 0
    ELSE bx[Head(children)].Size + ReservedSize(bx, Tail(children))

RECURSIVE TotalWeight(_, _)
TotalWeight(bx, children) ==
    IF children = <<>> THEN 0
    ELSE bx[Head(children)].Weight + TotalWeight(bx, Tail(children))

(***************************************************************************)
(* ArrangeViews, lines 79-89.  remainingSize >= 0 and totalWeight > 0, so  *)
(* Go's truncating / and % agree with \div and %.                          *)
(***************************************************************************)
\* variant: no clamp at 0
RemainingSize_Unclamped(availableSize, reservedSize) ==
    availableSize - reservedSize

RemainingSize(availableSize, reservedSize) ==
    IF availableSize - reservedSize < 0 THEN 0 ELSE availableSize - reservedSize

UnitSize(remainingSize, totalWeight) ==
    IF totalWeight > 0 THEN remainingSize \div totalWeight ELSE 0

ExtraSize(remainingSize, totalWeight) ==
    IF totalWeight > 0 THEN remainingSize % totalWeight ELSE 0

(***************************************************************************)
(* ArrangeViews, lines 94-103.  math.Min on float64 is exact for the       *)
(* magnitudes modelled (below 2^53).                                       *)
(***************************************************************************)
BoxExtraSize(extraSize, weight) == Min(extraSize, weight)

BoxSize(child, unitSize, extraSize) ==
    IF isStatic(child)
    THEN child.Size
    ELSE unitSize * child.Weight + BoxExtraSize(extraSize, child.Weight)

\* variant: the extra pool is never drawn down
NextExtraSize_Kept(child, extraSize) == extraSize

NextExtraSize(child, extraSize) ==
    IF isStatic(child)
    THEN extraSize
    ELSE extraSize - BoxExtraSize(extraSize, child.Weight)

(***************************************************************************)
(* ArrangeViews, lines 105-110 and 113: the child's allocation.            *)
(***************************************************************************)
\* variant: a row child is not moved down by the offset
ChildY0_NoOffset(direction, y0, offset) == y0

\* variant: a column child is clamped to the parent's width
ChildWidth_Clamped(direction, width, boxSize) ==
    IF direction = COLUMN THEN Min(boxSize, width) ELSE width

ChildX0(direction, x0, offset) == IF direction = COLUMN THEN x0 + offset ELSE x0
ChildY0(direction, y0, offset) == IF direction = COLUMN THEN y0 ELSE y0 + offset
ChildWidth(direction, width, boxSize) == IF direction = COLUMN THEN boxSize ELSE width
ChildHeight(direction, height, boxSize) == IF direction = COLUMN THEN height ELSE boxSize
NextOffset(offset, boxSize) == offset + boxSize

(***************************************************************************)
(* One activation of ArrangeViews.                                         *)
(***************************************************************************)
Frame(v, box, x0, y0, width, height) ==
    [visit |-> v, box |-> box, x0 |-> x0, y0 |-> y0,
     width |-> width, height |-> height, pc |-> "start",
     children |-> <<>>, direction |-> ROW, availableSize |-> 0,
     reservedSize |-> 0, totalWeight |-> 0, remainingSize |-> 0,
     unitSize |-> 0, extraSize |-> 0, result |-> EmptyMap,
     offset |-> 0, i |-> 1, boxSize |-> 0]

Visit(box, x0, y0, width, height, parent, k) ==
    [box |-> box, x0 |-> x0, y0 |-> y0, width |-> width, height |-> height,
     parent |-> parent, k |-> k, entered |-> FALSE,
     children |-> <<>>, direction |-> ROW]

Top == stack[Len(stack)]

SetTop(f) == [stack EXCEPT ![Len(stack)] = f]

(***************************************************************************)
(* Initial states: a box tree and the root call ArrangeViews(root, ...).   *)
(***************************************************************************)
Start(bx, x0, y0, width, height) ==
    /\ boxes = bx
    /\ stack = << Frame(1, 1, x0, y0, width, height) >>
    /\ visits = << Visit(1, x0, y0, width, height, 0, 0) >>
    /\ calls = << >>

Sizings == (0..MaxSize) \X (0..MaxWeight)

\* a root with three leaf children of every Size/Weight combination
InitFlat ==
    \E dir \in {ROW, COLUMN}, s2 \in Sizings, s3 \in Sizings, s4 \in Sizings,
       avail \in 0..MaxDim :
        Start([n \in 1..4 |->
                  CASE n = 1 -> Box(dir, "nil", <<2, 3, 4>>, "nil", <<>>, "", 0, 0)
                    [] n = 2 -> LeafBox("a", s2[1], s2[2])
                    [] n = 3 -> LeafBox("b", s3[1], s3[2])
                    [] n = 4 -> LeafBox("c", s4[1], s4[2])],
              0, 0,
              IF dir = COLUMN THEN avail ELSE MaxCross,
              IF dir = COLUMN THEN MaxCross ELSE avail)

\* the worked scenarios: two static children in 40x5, weights 1 and 2 in
\* 10x30, a conditional box at widths 10 and 30, one static child of 50 in 30
InitScenarios ==
    \/ Start([n \in 1..3 |->
                CASE n = 1 -> Box(COLUMN, "nil", <<2, 3>>, "nil", <<>>, "", 0, 0)
                  [] n = 2 -> LeafBox("a", 10, 0)
                  [] n = 3 -> LeafBox("b", 20, 0)], 0, 0, 40, 5)
    \/ Start([n \in 1..3 |->
                CASE n = 1 -> Box(ROW, "nil", <<2, 3>>, "nil", <<>>, "", 0, 0)
                  [] n = 2 -> LeafBox("a", 0, 1)
                  [] n = 3 -> LeafBox("b", 0, 2)], 0, 0, 10, 30)
    \/ \E w \in {10, 30} :
         Start([n \in 1..3 |->
                CASE n = 1 -> Box(COLUMN, "nil", <<>>, "threshold", <<2, 3>>, "r", 0, 0)
                  [] n = 2 -> LeafBox("a", 0, 1)
                  [] n = 3 -> LeafBox("b", 0, 1)], 0, 0, w, 5)
    \/ \E dir \in {ROW, COLUMN} :
         Start([n \in 1..2 |->
                CASE n = 1 -> Box(dir, "nil", <<2>>, "nil", <<>>, "", 0, 0)
                  [] n = 2 -> LeafBox("a", 50, 0)], 0, 0, 30, 30)

Init == InitFlat \/ InitScenarios

\* a two-level tree: the root holds an inner box (node 2, children 4 and 5,
\* possibly through ConditionalChildren) and a leaf (node 3), in either
\* order; view names repeat across leaves; directions may be conditional
DirOptions == { <<ROW, "nil">>, <<COLUMN, "nil">>, <<COLUMN, "wider">> }

InitTree ==
    \E order \in { <<2, 3>>, <<3, 2>> }, d1 \in DirOptions,
       cc2 \in {"nil", "threshold"}, d2 \in { <<COLUMN, "nil">>, <<ROW, "wider">> },
       n2 \in {"", "a"}, s2 \in { <<0, 1>>, <<MaxSize, 0>> },
       n3 \in {"", "a", "b"}, s3 \in { <<0, 0>>, <<0, 1>>, <<1, 0>>, <<-1, 1>> },
       n5 \in {"", "b"}, w5 \in 1..MaxWeight,
       width \in 0..MaxTreeDim, height \in 0..MaxCross :
        Start([n \in 1..5 |->
                  CASE n = 1 -> Box(d1[1], d1[2], order, "nil", <<>>, "", 0, 0)
                    [] n = 2 -> Box(d2[1], d2[2],
                                    IF cc2 = "nil" THEN <<4, 5>> ELSE <<>>, cc2,
                                    IF cc2 = "nil" THEN <<>> ELSE <<4, 5>>,
                                    n2, s2[1], s2[2])
                    [] n = 3 -> LeafBox(n3, s3[1], s3[2])
                    [] n = 4 -> LeafBox("a", 0, 1)
                    [] n = 5 -> LeafBox(n5, 0, w5)],
              1, 2, width, height)

(***************************************************************************)
(* ArrangeViews, lines 50-92: resolve the children; a box without children *)
(* returns its leaf result, any other resolves its direction and measures  *)
(* its children.                                                           *)
(***************************************************************************)
Enter ==
    /\ Top.pc = "start"
    /\ LET f == Top
           b == boxes[f.box]
           children == getChildren(b, f.width, f.height)
           direction == getDirection(b, f.width, f.height)
           availableSize == AvailableSize(direction, f.width, f.height)
           reservedSize == ReservedSize(boxes, children)
           totalWeight == TotalWeight(boxes, children)
           remainingSize == RemainingSize(availableSize, reservedSize)
       IN IF Len(children) = 0
          THEN /\ stack' = SetTop([f EXCEPT !.pc = "return",
                                     !.result = LeafResult(b, f.x0, f.y0, f.width, f.height)])
               /\ calls' = calls \o getChildrenCalls(b, f.visit, f.width, f.height)
               /\ visits' = [visits EXCEPT ![f.visit].entered = TRUE]
          ELSE /\ stack' = SetTop([f EXCEPT !.pc = "loop",
                                     !.children = children,
                                     !.direction = direction,
                                     !.availableSize = availableSize,
                                     !.reservedSize = reservedSize,
                                     !.totalWeight = totalWeight,
                                     !.remainingSize = remainingSize,
                                     !.unitSize = UnitSize(remainingSize, totalWeight),
                                     !.extraSize = ExtraSize(remainingSize, totalWeight),
                                     !.result = EmptyMap,
                                     !.offset = 0,
                                     !.i = 1])
               /\ calls' = calls \o getChildrenCalls(b, f.visit, f.width, f.height)
                                 \o getDirectionCalls(b, f.visit, f.width, f.height)
               /\ visits' = [visits EXCEPT ![f.visit].entered = TRUE,
                                           ![f.visit].children = children,
                                           ![f.visit].direction = direction]
    /\ UNCHANGED boxes

(***************************************************************************)
(* ArrangeViews, lines 93-110: size the next child and call ArrangeViews   *)
(* on it.                                                                  *)
(***************************************************************************)
Recurse ==
    /\ Top.pc = "loop"
    /\ Top.i <= Len(Top.children)
    /\ LET f == Top
           c == f.children[f.i]
           child == boxes[c]
           boxSize == BoxSize(child, f.unitSize, f.extraSize)
           v == Len(visits) + 1
           cx == ChildX0(f.direction, f.x0, f.offset)
           cy == ChildY0(f.direction, f.y0, f.offset)
           cw == ChildWidth(f.direction, f.width, boxSize)
           ch == ChildHeight(f.direction, f.height, boxSize)
       IN /\ stack' = Append(SetTop([f EXCEPT !.pc = "wait",
                                       !.boxSize = boxSize,
                                       !.extraSize = NextExtraSize(child, f.extraSize)]),
                             Frame(v, c, cx, cy, cw, ch))
          /\ visits' = Append(visits, Visit(c, cx, cy, cw, ch, f.visit, f.i))
    /\ UNCHANGED <<boxes, calls>>

(***************************************************************************)
(* ArrangeViews, lines 112-113: the child has returned; merge its result   *)
(* and advance the offset.                                                 *)
(***************************************************************************)
Merge ==
    /\ Len(stack) > 1
    /\ Top.pc = "return"
    /\ LET r == Top.result
           p == stack[Len(stack) - 1]
       IN stack' = [SubSeq(stack, 1, Len(stack) - 1) EXCEPT ![Len(stack) - 1] =
                       [p EXCEPT !.pc = "loop",
                                 !.result = mergeDimensionMaps(p.result, r),
                                 !.offset = NextOffset(p.offset, p.boxSize),
                                 !.i = p.i + 1]]
    /\ UNCHANGED <<boxes, visits, calls>>

(***************************************************************************)
(* ArrangeViews, line 116: all children arranged; return result.           *)
(***************************************************************************)
Return ==
    /\ Top.pc = "loop"
    /\ Top.i > Len(Top.children)
    /\ stack' = SetTop([Top EXCEPT !.pc = "return"])
    /\ UNCHANGED <<boxes, visits, calls>>

Next == Enter \/ Recurse \/ Merge \/ Return

Spec == Init /\ [][Next]_vars

SpecTree == InitTree /\ [][Next]_vars

\* the root call has returned; its result is the returned mapping
Done == Len(stack) = 1 /\ stack[1].pc = "return"

Returned == stack[1].result

TypeOK ==
    /\ Len(stack) >= 1
    /\ \A n \in 1..Len(stack) : stack[n].pc \in {"start", "loop", "wait", "return"}

(***************************************************************************)
(* Vocabulary of the properties.                                           *)
(***************************************************************************)
Frames == { stack[n] : n \in 1..Len(stack) }

VisitIds == 1..Len(visits)

\* the frame has measured its children (it is past line 89)
Measured(f) == f.children # <<>> /\ f.pc \in {"loop", "wait", "return"}

\* the frame has arranged every child (its second loop has ended)
Arranged(f) ==
    /\ f.children # <<>>
    /\ \/ f.pc = "return"
       \/ f.pc = "loop" /\ f.i > Len(f.children)

\* the activations made by activation p for its children
ChildVisits(p) == { v \in VisitIds : visits[v].parent = p }

\* the extent of activation v along its parent's partitioned axis
Extent(v) ==
    IF visits[visits[v].parent].direction = COLUMN
    THEN visits[v].width ELSE visits[v].height

RECURSIVE SumExtents(_)
SumExtents(S) ==
    IF S = {} THEN 0
    ELSE LET v == CHOOSE x \in S : TRUE IN Extent(v) + SumExtents(S \ {v})

\* sum of the sizes of the static children / of the weights of the others
RECURSIVE StaticSizeSum(_)
StaticSizeSum(children) ==
    IF children = <<>> THEN 0
    ELSE (IF boxes[Head(children)].Size > 0 THEN boxes[Head(children)].Size ELSE 0)
         + StaticSizeSum(Tail(children))

RECURSIVE NonStaticWeightSum(_)
NonStaticWeightSum(children) ==
    IF children = <<>> THEN 0
    ELSE (IF boxes[Head(children)].Size > 0 THEN 0 ELSE boxes[Head(children)].Weight)
         + NonStaticWeightSum(Tail(children))

\* an activation that found no children
LeafVisit(v) == visits[v].entered /\ visits[v].children = <<>>

\* the rectangle of an allocation
RectOf(v) ==
    [X0 |-> visits[v].x0, X1 |-> visits[v].x0 + visits[v].width - 1,
     Y0 |-> visits[v].y0, Y1 |-> visits[v].y0 + visits[v].height - 1]

(***************************************************************************)
(* C1: whenever the weights of the non-static children sum to more than 0  *)
(* and the static sizes fit in availableSize, the extents assigned to the  *)
(* children of a box sum to availableSize exactly.                         *)
(***************************************************************************)
C1_ExtentsFillAvailable ==
    \A f \in Frames :
        (Arranged(f) /\ NonStaticWeightSum(f.children) > 0
                     /\ StaticSizeSum(f.children) <= f.availableSize)
        => SumExtents(ChildVisits(f.visit)) = f.availableSize

(***************************************************************************)
(* C5: reservedSize is the sum of the static sizes and totalWeight the sum *)
(* of the weights of the non-static children only; unitSize and extraSize  *)
(* are derived from that totalWeight.                                      *)
(***************************************************************************)
C5_FirstPassSums ==
    \A f \in Frames :
        Measured(f) =>
            /\ f.reservedSize = StaticSizeSum(f.children)
            /\ f.totalWeight = NonStaticWeightSum(f.children)
            /\ (f.pc = "loop" /\ f.i = 1 /\ NonStaticWeightSum(f.children) > 0) =>
                  /\ f.unitSize = f.remainingSize \div NonStaticWeightSum(f.children)
                  /\ f.extraSize = f.remainingSize % NonStaticWeightSum(f.children)

(***************************************************************************)
(* C2: a box whose resolved children list is empty returns exactly         *)
(* ViewName -> (x0, y0, x0+w-1, y0+h-1) when it has a ViewName, for every  *)
(* w and h including 0, and the empty mapping when it has none.            *)
(***************************************************************************)
C2_LeafReturn ==
    \A f \in Frames :
        (f.pc = "return" /\ LeafVisit(f.visit)) =>
            IF boxes[f.box].ViewName # ""
            THEN /\ DOMAIN f.result = { boxes[f.box].ViewName }
                 /\ f.result[boxes[f.box].ViewName] =
                        [X0 |-> f.x0, X1 |-> f.x0 + f.width - 1,
                         Y0 |-> f.y0, Y1 |-> f.y0 + f.height - 1]
            ELSE DOMAIN f.result = {}

\* a named box that resolved to no children returns with width 0, and so
\* does one without a name
C2_Witness ==
    /\ Top.pc = "return" /\ LeafVisit(Top.visit)
    /\ boxes[Top.box].ViewName # ""
    /\ boxes[Top.box].ConditionalChildren # "nil"
    /\ Top.width = 0

(***************************************************************************)
(* C3: a static child (Size > 0) is allocated an extent equal to its Size, *)
(* whatever availableSize and its siblings are; a single static child of   *)
(* size 50 in an extent of 30 receives 50 and reaches past the parent.     *)
(***************************************************************************)
Scenario5 ==
    /\ DOMAIN boxes = 1..2
    /\ boxes[2].Size = 50
    /\ stack[1].width = 30 /\ stack[1].height = 30

C3_StaticExtentVerbatim ==
    /\ \A v \in VisitIds :
          (visits[v].parent # 0 /\ isStatic(boxes[visits[v].box]))
          => Extent(v) = boxes[visits[v].box].Size
    /\ (Scenario5 /\ Done) =>
          Returned = [k \in {"a"} |->
                        IF boxes[1].Direction = COLUMN
                        THEN [X0 |-> 0, X1 |-> 49, Y0 |-> 0, Y1 |-> 29]
                        ELSE [X0 |-> 0, X1 |-> 29, Y0 |-> 0, Y1 |-> 49]]

\* the static sizes exceed what the parent has, and a static child got its size
C3_Witness ==
    \E v \in VisitIds :
        /\ visits[v].parent # 0
        /\ isStatic(boxes[visits[v].box])
        /\ \E f \in Frames :
              /\ f.visit = visits[v].parent
              /\ f.reservedSize > f.availableSize
              /\ Extent(v) > f.availableSize

(***************************************************************************)
(* C4: among weighted siblings of equal weight, when the remainder is less *)
(* than the number of weighted children, an earlier child has an extent at *)
(* least that of a later one; three weight-1 children in width 10 receive  *)
(* extents 4, 3, 3 at offsets 0-3, 4-6, 7-9.                               *)
(***************************************************************************)
Weighted(c) == ~(boxes[c].Size > 0)

NumWeighted(children) == Cardinality({ n \in 1..Len(children) : Weighted(children[n]) })

Remainder(f) == IF f.totalWeight > 0 THEN f.remainingSize % f.totalWeight ELSE 0

Scenario3 ==
    /\ DOMAIN boxes = 1..4
    /\ boxes[1].Direction = COLUMN
    /\ stack[1].width = 10
    /\ \A n \in 2..4 : boxes[n].Size = 0 /\ boxes[n].Weight = 1

C4_RemainderOrderStable ==
    /\ \A f \in Frames :
          (Arranged(f) /\ Remainder(f) < NumWeighted(f.children)) =>
              \A v, w \in ChildVisits(f.visit) :
                  (/\ visits[v].k < visits[w].k
                   /\ Weighted(visits[v].box) /\ Weighted(visits[w].box)
                   /\ boxes[visits[v].box].Weight = boxes[visits[w].box].Weight)
                  => Extent(v) >= Extent(w)
    /\ (Scenario3 /\ Done) =>
          Returned = [k \in {"a", "b", "c"} |->
                        CASE k = "a" -> [X0 |-> 0, X1 |-> 3, Y0 |-> 0, Y1 |-> MaxCross - 1]
                          [] k = "b" -> [X0 |-> 4, X1 |-> 6, Y0 |-> 0, Y1 |-> MaxCross - 1]
                          [] k = "c" -> [X0 |-> 7, X1 |-> 9, Y0 |-> 0, Y1 |-> MaxCross - 1]]

\* equal-weight siblings where the earlier one got the extra unit and the
\* later one did not
C4_Witness ==
    \E f \in Frames :
        /\ Arranged(f) /\ Remainder(f) > 0 /\ Remainder(f) < NumWeighted(f.children)
        /\ \E v, w \in ChildVisits(f.visit) :
              /\ visits[v].k < visits[w].k
              /\ Weighted(visits[v].box) /\ Weighted(visits[w].box)
              /\ boxes[visits[v].box].Weight = boxes[visits[w].box].Weight
              /\ Extent(v) = Extent(w) + 1

(***************************************************************************)
(* C6 as stated: for every box visited, each of ConditionalChildren and    *)
(* ConditionalDirection, when set, is invoked exactly once for that visit, *)
(* with the (width, height) the box was assigned.                          *)
(***************************************************************************)
CallsOf(fn, v) == { n \in 1..Len(calls) : calls[n].fn = fn /\ calls[n].visit = v }

OnceWithAllocation(fn, v) ==
    /\ Cardinality(CallsOf(fn, v)) = 1
    /\ \A n \in CallsOf(fn, v) :
          calls[n].width = visits[v].width /\ calls[n].height = visits[v].height

C6_BothResolvedOncePerVisit ==
    \A v \in VisitIds :
        visits[v].entered =>
            /\ boxes[visits[v].box].ConditionalChildren # "nil"
                   => OnceWithAllocation("ConditionalChildren", v)
            /\ boxes[visits[v].box].ConditionalDirection # "nil"
                   => OnceWithAllocation("ConditionalDirection", v)

(***************************************************************************)
(* C6 amended: for every box visited, ConditionalChildren, when set, is    *)
(* invoked exactly once for that visit; ConditionalDirection, when set, is *)
(* invoked exactly once when the resolved children list is non-empty and   *)
(* not at all when it is empty; each invocation receives the (width,       *)
(* height) the box was assigned, and no callback is invoked otherwise.     *)
(***************************************************************************)
C6_ResolvedOncePerVisit ==
    \A v \in VisitIds :
        /\ IF visits[v].entered /\ boxes[visits[v].box].ConditionalChildren # "nil"
           THEN OnceWithAllocation("ConditionalChildren", v)
           ELSE CallsOf("ConditionalChildren", v) = {}
        /\ IF /\ visits[v].entered
              /\ boxes[visits[v].box].ConditionalDirection # "nil"
              /\ visits[v].children # <<>>
           THEN OnceWithAllocation("ConditionalDirection", v)
           ELSE CallsOf("ConditionalDirection", v) = {}

\* the call has finished and visited a box with both callbacks whose
\* children resolved to a non-empty list, below a root whose conditional
\* direction was resolved too
C6_Witness ==
    /\ Done
    /\ boxes[1].ConditionalDirection # "nil"
    /\ \E v \in VisitIds :
          /\ visits[v].parent # 0
          /\ boxes[visits[v].box].ConditionalChildren # "nil"
          /\ boxes[visits[v].box].ConditionalDirection # "nil"
          /\ visits[v].children # <<>>
          /\ visits[v].width # visits[v].height

(***************************************************************************)
(* C7: the keys of the returned mapping are exactly the non-empty          *)
(* ViewNames of the boxes that are leaves in this call; a named leaf whose *)
(* extent is 0 is present, with a zero-area rectangle.                     *)
(***************************************************************************)
LeafNames == { boxes[visits[v].box].ViewName : v \in { x \in VisitIds : LeafVisit(x) } } \ {""}

C7_KeysAreLeafNames ==
    Done =>
        /\ DOMAIN Returned = LeafNames
        /\ \A v \in VisitIds :
              (LeafVisit(v) /\ boxes[visits[v].box].ViewName # "")
              => boxes[visits[v].box].ViewName \in DOMAIN Returned

\* a named leaf was given no width and its zero-area rectangle is returned
C7_Witness ==
    /\ Done
    /\ \E v \in VisitIds :
          /\ LeafVisit(v) /\ visits[v].parent # 0
          /\ visits[v].width = 0
          /\ boxes[visits[v].box].ViewName \in DOMAIN Returned
          /\ Returned[boxes[visits[v].box].ViewName] = RectOf(v)
          /\ Cardinality(DOMAIN Returned) > 1

(***************************************************************************)
(* C8: with non-negative Weights and a root width and height >= 0, every   *)
(* rectangle returned has X1 >= X0 - 1 and Y1 >= Y0 - 1, and no box at any *)
(* depth is allocated a negative extent.                                   *)
(***************************************************************************)
C8_WellFormed ==
    /\ \A v \in VisitIds : visits[v].width >= 0 /\ visits[v].height >= 0
    /\ \A f \in Frames : \A k \in DOMAIN f.result :
          /\ f.result[k].X1 >= f.result[k].X0 - 1
          /\ f.result[k].Y1 >= f.result[k].Y0 - 1

\* the static sizes exceeded the available extent, a weighted sibling was
\* left with nothing, and its rectangle was returned
C8_Witness ==
    /\ Done
    /\ stack[1].reservedSize > stack[1].availableSize
    /\ \E v \in ChildVisits(1) :
          /\ ~isStatic(boxes[visits[v].box])
          /\ boxes[visits[v].box].Weight > 0
          /\ Extent(v) = 0
          /\ LeafVisit(v)
          /\ boxes[visits[v].box].ViewName \in DOMAIN Returned

(***************************************************************************)
(* C9: the k-th child of a box is allocated the parent's origin advanced   *)
(* along the partitioned axis by the extents of children 1..k-1, with the  *)
(* parent's cross-axis origin and cross-axis dimension.                    *)
(***************************************************************************)
EarlierSiblings(v) ==
    { u \in ChildVisits(visits[v].parent) : visits[u].k < visits[v].k }

C9_ContiguousAllocations ==
    \A v \in VisitIds :
        visits[v].parent # 0 =>
            LET p == visits[visits[v].parent]
                before == SumExtents(EarlierSiblings(v))
            IN IF p.direction = COLUMN
               THEN /\ visits[v].x0 = p.x0 + before
                    /\ visits[v].y0 = p.y0
                    /\ visits[v].height = p.height
               ELSE /\ visits[v].y0 = p.y0 + before
                    /\ visits[v].x0 = p.x0
                    /\ visits[v].width = p.width

\* a grandchild placed after a sibling of positive extent, inside a child
\* that itself comes after a sibling of positive extent
C9_Witness ==
    \E v \in VisitIds :
        /\ visits[v].parent > 1
        /\ SumExtents(EarlierSiblings(v)) > 0
        /\ SumExtents(EarlierSiblings(visits[v].parent)) > 0

(***************************************************************************)
(* C10: when several leaves of one call carry the same ViewName, the       *)
(* returned mapping holds for that name the rectangle of the leaf visited  *)
(* last, depth-first in child-list order; other keys are unaffected.       *)
(***************************************************************************)
LeavesNamed(name) ==
    { v \in VisitIds : LeafVisit(v) /\ boxes[visits[v].box].ViewName = name }

LastOf(S) == CHOOSE v \in S : \A u \in S : u <= v

C10_LastLeafWins ==
    Done =>
        \A name \in DOMAIN Returned :
            /\ LeavesNamed(name) # {}
            /\ Returned[name] = RectOf(LastOf(LeavesNamed(name)))

\* two leaves share a name and have different rectangles, the later one in
\* an inner box
C10_Witness ==
    /\ Done
    /\ \E name \in DOMAIN Returned :
          \E u, v \in LeavesNamed(name) :
              /\ u < v
              /\ RectOf(u) # RectOf(v)
              /\ visits[u].parent = 1
              /\ visits[v].parent > 1
====
